---- MODULE Spec2Model ----
(***************************************************************************)
(* Model of mailing.py: the campaign e-mail sender.  One run of            *)
(* enviar_correos loads a campaign, reads its contact list (CSV), opens    *)
(* one SMTP session, walks the contacts once, closes the session and       *)
(* rewrites the CSV.  Text is handled as sequences of one-character strings so   *)
(* that lower(), strip() and split() are computed, not assumed.            *)
(***************************************************************************)
EXTENDS Integers, Sequences, FiniteSets, TLC

\* ------------------------------------------------------------------ bounds
MaxRows == 2

\* ------------------------------------------------------------ text helpers
UpperCase == <<"A","B","C","D","E","F","G","H","I","J","K","L","M",
               "N","O","P","Q","R","S","T","U","V","W","X","Y","Z">>
LowerCase == <<"a","b","c","d","e","f","g","h","i","j","k","l","m",
               "n","o","p","q","r","s","t","u","v","w","x","y","z">>

IsSpace(ch) == ch \in {" ", "\t"}

Range(s) == {s[k] : k \in DOMAIN s}
Pos(s, x) == CHOOSE k \in DOMAIN s : s[k] = x

\* the lower-case letter of every upper-case letter
ToLower == [ch \in Range(UpperCase) |-> LowerCase[Pos(UpperCase, ch)]]

LowerCh(ch) == IF ch \in DOMAIN ToLower THEN ToLower[ch] ELSE ch

\* str.lower()
Lower(s) == [k \in DOMAIN s |-> LowerCh(s[k])]

\* the positions of s that hold a non-blank character
Inked(s) == {k \in DOMAIN s : ~IsSpace(s[k])}

Min(S) == CHOOSE x \in S : \A y \in S : x <= y
Max(S) == CHOOSE x \in S : \A y \in S : x >= y

\* str.strip(): drop the leading and the trailing blanks
Strip(s) ==
  IF Inked(s) = {} THEN <<>>
  ELSE SubSeq(s, Min(Inked(s)), Max(Inked(s)))

\* str.split() yields no token for an empty or blank string, so [0] raises
SplitRaises(s) == Inked(s) = {}

\* str.split()[0]: the first maximal run of non-blank characters
FirstToken(s) ==
  LET b == Min(Inked(s))
      stops == {k \in DOMAIN s : k > b /\ IsSpace(s[k])}
      e == IF stops = {} THEN Len(s) ELSE Min(stops) - 1
  IN SubSeq(s, b, e)

\* .lower().strip() as applied to email, enviado, device and language
Norm(s) == Strip(Lower(s))

\* the characters of every text a contact list of the model holds
Glyphs ==
  [ t \in {"An R", "Bo", "Cy", "Di", " ", "Fe", "G", "", "A@x", "b@x", "c@x",
           "d@x", "e@x", "g@x", "h@x", "ios", " Android", "android", "no", " SI ",
           "si", "es", " EN", "en", "fr"} |->
    CASE t = "An R" -> <<"A","n"," ","R">>
      [] t = "Bo" -> <<"B","o">>
      [] t = "Cy" -> <<"C","y">>
      [] t = "Di" -> <<"D","i">>
      [] t = " " -> <<" ">>
      [] t = "Fe" -> <<"F","e">>
      [] t = "G" -> <<"G">>
      [] t = "" -> <<>>
      [] t = "A@x" -> <<"A","@","x">>
      [] t = "b@x" -> <<"b","@","x">>
      [] t = "c@x" -> <<"c","@","x">>
      [] t = "d@x" -> <<"d","@","x">>
      [] t = "e@x" -> <<"e","@","x">>
      [] t = "g@x" -> <<"g","@","x">>
      [] t = "h@x" -> <<"h","@","x">>
      [] t = "ios" -> <<"i","o","s">>
      [] t = " Android" -> <<" ","A","n","d","r","o","i","d">>
      [] t = "android" -> <<"a","n","d","r","o","i","d">>
      [] t = "no" -> <<"n","o">>
      [] t = " SI " -> <<" ","S","I"," ">>
      [] t = "si" -> <<"s","i">>
      [] t = "es" -> <<"e","s">>
      [] t = " EN" -> <<" ","E","N">>
      [] t = "en" -> <<"e","n">>
      [] t = "fr" -> <<"f","r">> ]

Chars(t) == Glyphs[t]

SI == <<"s","i">>
ES == <<"e","s">>
EN == <<"e","n">>
ANDROID == <<"a","n","d","r","o","i","d">>

\* --------------------------------------------------------------- CSV file
fieldnames == <<"nombre", "email", "device", "enviado", "language">>

NoFile == [exists |-> FALSE, header |-> <<>>, rows |-> <<>>]

\* csv.DictReader: every row becomes a dict keyed by the header's names
ParseCSV(f) ==
  [r \in 1..Len(f.rows) |->
     [k \in Range(f.header) |-> f.rows[r][Pos(f.header, k)]]]

\* variant: device and enviado change places
DictToRowSwapped(c) == <<c["nombre"], c["email"], c["enviado"], c["device"], c["language"]>>
\* the columns of one dict in the fixed order of the writer's fieldnames
DictToRow(c) == [j \in DOMAIN fieldnames |-> c[fieldnames[j]]]

\* csv.DictWriter: header then every contact, sent or not
DumpCSV(cs) ==
  [exists |-> TRUE, header |-> fieldnames,
   rows |-> [r \in DOMAIN cs |-> DictToRow(cs[r])]]

\* ------------------------------------------------------ campaign store
DEFAULT_CAMPAIGN == "beta_invitation"
Campaigns == {"beta_invitation"}
CampaignIds == {"none", "unknown"}

\* the contact rows a list file may hold
Contact(n, e, d, s, l) ==
  [nombre |-> n, email |-> e, device |-> d, enviado |-> s, language |-> l]
ContactPool ==
  { Contact("An R", "A@x", "ios", "no", "es"),
    Contact("Bo", "b@x", "ios", "", " EN"),
    Contact("Cy", "c@x", " Android", "no", "es"),
    Contact("Di", "d@x", "ios", " SI ", "fr"),
    Contact(" ", "e@x", "ios", "no", "es"),
    Contact("Fe", " ", "ios", "no", "en"),
    Contact("G", "g@x", "android", "si", "es"),
    Contact("", "h@x", " Android", " SI ", "es") }

\* the column orders a list file may have been saved with
Headers == { fieldnames, <<"email", "nombre", "language", "enviado", "device">> }

FileOf(h, cs) ==
  [exists |-> TRUE, header |-> h,
   rows |-> [r \in DOMAIN cs |-> [j \in DOMAIN h |-> cs[r][h[j]]]]]

ContactLists == UNION {[1..n -> ContactPool] : n \in 0..MaxRows}

\* ------------------------------------------------------------- state
VARIABLES
  campaign_id,  \* the campaign this run was asked for, after defaulting
  file,         \* the campaign's contact-list file: exists, header, rows
  pc,           \* position of the run inside enviar_correos
  contactos,    \* the list of dicts read from the file
  templates,    \* [es, en]: whether each language's template was loaded
  idx,          \* the row the send loop is at
  session,      \* unopened, connected, encrypted, authenticated, closed
  alive,        \* the session's socket is still connected
  status,       \* per row, what this run did with it
  lastErr,      \* what the outer handlers reported
  listed,       \* the available campaigns were printed
  csvReads,     \* reads of a contact list in this run
  csvWrites,    \* rewrites of a contact list in this run
  file0,        \* the file as it was when this run started
  dropAt,       \* the row at which the connection was lost, 0 if none
  okEarlier,    \* per row: a send succeeded in an earlier run
  savedEarlier  \* per row: a send succeeded in an earlier run that rewrote the file

vars == <<campaign_id, file, pc, contactos, templates, idx, session, alive, status, lastErr,
          listed, csvReads, csvWrites, file0, dropAt, okEarlier, savedEarlier>>

Final == {"returned", "aborted", "done"}

NRows == Len(file.rows)

Init ==
  /\ \E h \in Headers, cs \in ContactLists :
       file \in {NoFile, FileOf(h, cs)}
  /\ campaign_id = "none"
  /\ pc = "idle"
  /\ contactos = <<>>
  /\ templates = [es |-> FALSE, en |-> FALSE]
  /\ idx = 1
  /\ session = "unopened"
  /\ alive = FALSE
  /\ status = [r \in 1..NRows |-> "none"]
  /\ lastErr = "none"
  /\ listed = FALSE
  /\ csvReads = 0
  /\ csvWrites = 0
  /\ file0 = file
  /\ dropAt = 0
  /\ okEarlier = [r \in 1..NRows |-> FALSE]
  /\ savedEarlier = [r \in 1..NRows |-> FALSE]

\* ------------------------------------------------- enviar_correos, set-up
\* load_campaign_config returns None when the folder has no config.json
\* variant: the descriptor is not looked for
ConfigExistsAlways(id) == TRUE
ConfigExists(id) == id \in Campaigns

\* if not campaign_id: campaign_id = DEFAULT_CAMPAIGN
Resolve(cid) == IF cid = "none" THEN DEFAULT_CAMPAIGN ELSE cid

\* variant: the flag is compared as written
EnviadoOfRaw(c) == Chars(c["enviado"])
\* contacto.get('enviado', 'no').lower().strip()
EnviadoOf(c) == Norm(Chars(c["enviado"]))

\* variant: the device is compared as written
DeviceOfRaw(c) == Chars(c["device"])
\* contacto.get('device', 'no').lower().strip()
DeviceOf(c) == Norm(Chars(c["device"]))

\* contacto.get('email', '').lower().strip()
EmailOf(c) == Norm(Chars(c["email"]))

\* language, defaulting to 'es' when it is neither 'es' nor 'en'
LanguageOf(c) ==
  LET l == Norm(Chars(c["language"])) IN IF l \in {ES, EN} THEN l ELSE ES

\* sum(1 for c in contactos if enviado != 'si')
Pendientes(cs) == Cardinality({r \in DOMAIN cs : EnviadoOf(cs[r]) # SI})

TemplateSets == [es : BOOLEAN, en : BOOLEAN]

\* what every run starts from, whatever the previous run left
Fresh ==
  /\ idx' = 1
  /\ session' = "unopened"
  /\ alive' = FALSE
  /\ status' = [r \in 1..NRows |-> "none"]
  /\ lastErr' = "none"
  /\ csvWrites' = 0
  /\ file0' = file
  /\ dropAt' = 0
  /\ okEarlier' = [r \in 1..NRows |->
                     okEarlier[r] \/ status[r] = "sent"]
  /\ savedEarlier' = [r \in 1..NRows |->
                     savedEarlier[r] \/ (pc = "done" /\ status[r] = "sent")]
  /\ UNCHANGED file

\* the run returns before the contact list is opened
ReturnEarly(reported) ==
  /\ pc' = "returned"
  /\ listed' = reported
  /\ csvReads' = 0
  /\ contactos' = <<>>
  /\ templates' = [es |-> FALSE, en |-> FALSE]

\* enviar_correos up to the connection: campaign, templates, contact list
Start(cid) ==
  /\ pc \in Final \cup {"idle"}
  /\ Fresh
  /\ campaign_id' = Resolve(cid)
  /\ IF ~ConfigExists(Resolve(cid)) THEN ReturnEarly(TRUE)
     ELSE IF ~file.exists THEN ReturnEarly(FALSE)
     ELSE \E t \in TemplateSets :
            IF ~t.es /\ ~t.en THEN ReturnEarly(FALSE)
            ELSE LET cs == ParseCSV(file) IN
                 /\ templates' = t
                 /\ listed' = FALSE
                 /\ csvReads' = 1
                 /\ contactos' = cs
                 /\ pc' = IF cs = <<>> \/ Pendientes(cs) = 0
                          THEN "returned" ELSE "connect"

\* ------------------------------------------- enviar_correos, the session
\* variant: the handlers save the contact list on the way out
AbortSaving(err) ==
  /\ pc' = "aborted"
  /\ lastErr' = err
  /\ file' = DumpCSV(contactos)
  /\ csvWrites' = csvWrites + 1

\* except SMTPAuthenticationError / gaierror / ConnectionRefusedError /
\* Exception: the error is printed and the function ends
Abort(err) ==
  /\ pc' = "aborted"
  /\ lastErr' = err
  /\ UNCHANGED <<file, csvWrites>>

\* smtplib.SMTP(SMTP_SERVER, SMTP_PORT, timeout=30)
Connect ==
  /\ pc = "connect"
  /\ pc' = "starttls"
  /\ session' = "connected"
  /\ alive' = TRUE
  /\ UNCHANGED <<campaign_id, file, contactos, templates, idx, status, lastErr, listed,
                 csvReads, csvWrites, file0, dropAt, okEarlier, savedEarlier>>

ConnectFails(err) ==
  /\ pc = "connect"
  /\ Abort(err)
  /\ UNCHANGED <<campaign_id, contactos, templates, idx, session, alive, status, listed,
                 csvReads, file0, dropAt, okEarlier, savedEarlier>>

\* server.starttls()
StartTLS ==
  /\ pc = "starttls"
  /\ pc' = "login"
  /\ session' = "encrypted"
  /\ UNCHANGED <<campaign_id, file, contactos, templates, idx, alive, status, lastErr, listed,
                 csvReads, csvWrites, file0, dropAt, okEarlier, savedEarlier>>

StartTLSFails ==
  /\ pc = "starttls"
  /\ Abort("generic")
  /\ UNCHANGED <<campaign_id, contactos, templates, idx, session, alive, status, listed,
                 csvReads, file0, dropAt, okEarlier, savedEarlier>>

\* server.login(SMTP_USER, SMTP_PASSWORD)
Login ==
  /\ pc = "login"
  /\ pc' = "loop"
  /\ session' = "authenticated"
  /\ UNCHANGED <<campaign_id, file, contactos, templates, idx, alive, status, lastErr, listed,
                 csvReads, csvWrites, file0, dropAt, okEarlier, savedEarlier>>

LoginFails(err) ==
  /\ pc = "login"
  /\ Abort(err)
  /\ UNCHANGED <<campaign_id, contactos, templates, idx, session, alive, status, listed,
                 csvReads, file0, dropAt, okEarlier, savedEarlier>>

\* ------------------------------------------ enviar_correos, the send loop
\* variant: the iteration stops one row short
LoopDoneEarly(i, cs) == i >= Len(cs)
\* for contacto in contactos: the iteration is over past the last row
LoopDone(i, cs) == i > Len(cs)

\* if not nombre or not email or device == 'android'
Skips(c) ==
  \/ FirstToken(Chars(c["nombre"])) = <<>>
  \/ EmailOf(c) = <<>>
  \/ DeviceOf(c) = ANDROID

\* if enviado == 'si': continue
AlreadySent(c) == EnviadoOf(c) = SI

\* the row reaches the try block that builds and sends its message
Eligible(c) == ~SplitRaises(Chars(c["nombre"])) /\ ~Skips(c) /\ ~AlreadySent(c)

TemplateLoaded(l) == IF l = ES THEN templates.es ELSE templates.en

\* templates.get(language), falling back to templates['es']
HasTemplate(c) ==
  IF TemplateLoaded(LanguageOf(c)) THEN TRUE ELSE templates.es

\* variant: the flag is not set
MarkSentNot(c) == c
\* contacto['enviado'] = 'si'
MarkSent(c) == [c EXCEPT !["enviado"] = "si"]

AtRow == pc = "loop" /\ ~LoopDone(idx, contactos)

Sets(what) == status' = [status EXCEPT ![idx] = what]

\* except Exception as e: print the error, go on with the next contact
RowFailed(what) ==
  /\ Sets(what)
  /\ idx' = idx + 1
  /\ UNCHANGED <<campaign_id, file, pc, contactos, templates, session, lastErr, listed,
                 csvReads, csvWrites, file0, okEarlier, savedEarlier>>

\* continue
RowPassed(what) ==
  /\ Sets(what)
  /\ idx' = idx + 1
  /\ UNCHANGED <<campaign_id, file, pc, contactos, templates, session, alive, lastErr, listed,
                 csvReads, csvWrites, file0, dropAt, okEarlier, savedEarlier>>

\* contacto.get('nombre', '').split()[0] on a name with no token: IndexError,
\* raised outside the inner try and caught by the outer except Exception
RowRaises ==
  /\ AtRow
  /\ SplitRaises(Chars(contactos[idx]["nombre"]))
  /\ Sets("raised")
  /\ Abort("generic")
  /\ UNCHANGED <<campaign_id, contactos, templates, idx, session, alive, listed, csvReads,
                 file0, dropAt, okEarlier, savedEarlier>>

RowSkipped ==
  /\ AtRow
  /\ ~SplitRaises(Chars(contactos[idx]["nombre"]))
  /\ Skips(contactos[idx])
  /\ RowPassed("skipped")

RowAlready ==
  /\ AtRow
  /\ ~SplitRaises(Chars(contactos[idx]["nombre"]))
  /\ ~Skips(contactos[idx])
  /\ AlreadySent(contactos[idx])
  /\ RowPassed("already")

\* create_html_email raises: no template text, or an image that cannot be
\* read or typed
RowBuildFails ==
  /\ AtRow
  /\ Eligible(contactos[idx])
  /\ RowFailed("failed_build")
  /\ UNCHANGED <<alive, dropAt>>

\* server.sendmail returns: the contact is marked and counted
RowSent ==
  /\ AtRow
  /\ Eligible(contactos[idx])
  /\ HasTemplate(contactos[idx])
  /\ alive
  /\ Sets("sent")
  /\ idx' = idx + 1
  /\ contactos' = [contactos EXCEPT ![idx] = MarkSent(@)]
  /\ UNCHANGED <<campaign_id, file, pc, templates, session, alive, lastErr, listed, csvReads,
                 csvWrites, file0, dropAt, okEarlier, savedEarlier>>

\* server.sendmail raises and the session stays usable (recipient refused)
RowRefused ==
  /\ AtRow
  /\ Eligible(contactos[idx])
  /\ HasTemplate(contactos[idx])
  /\ alive
  /\ RowFailed("failed_send")
  /\ UNCHANGED <<alive, dropAt>>

\* server.sendmail raises because the connection is lost during this send
RowDropped ==
  /\ AtRow
  /\ Eligible(contactos[idx])
  /\ HasTemplate(contactos[idx])
  /\ alive
  /\ RowFailed("failed_send")
  /\ alive' = FALSE
  /\ dropAt' = idx

\* server.sendmail on a session whose connection is already lost: it raises
RowDead ==
  /\ AtRow
  /\ Eligible(contactos[idx])
  /\ HasTemplate(contactos[idx])
  /\ ~alive
  /\ RowFailed("failed_send")
  /\ UNCHANGED <<alive, dropAt>>

\* server.quit() after the loop
Quit ==
  /\ pc = "loop"
  /\ LoopDone(idx, contactos)
  /\ alive
  /\ pc' = "write"
  /\ session' = "closed"
  /\ alive' = FALSE
  /\ UNCHANGED <<campaign_id, file, contactos, templates, idx, status, lastErr, listed,
                 csvReads, csvWrites, file0, dropAt, okEarlier, savedEarlier>>

\* variant: the error of quit is swallowed and the run goes on to save
QuitFailsSwallowed ==
  /\ pc = "loop"
  /\ LoopDone(idx, contactos)
  /\ pc' = "write"
  /\ alive' = FALSE
  /\ UNCHANGED <<campaign_id, file, contactos, templates, idx, session, status,
                 lastErr, listed, csvReads, csvWrites, file0, dropAt, okEarlier,
                 savedEarlier>>

\* server.quit() raises: the connection is lost already, or is lost now
QuitFails ==
  /\ pc = "loop"
  /\ LoopDone(idx, contactos)
  /\ Abort("generic")
  /\ alive' = FALSE
  /\ UNCHANGED <<campaign_id, contactos, templates, idx, session, status, listed, csvReads,
                 file0, dropAt, okEarlier, savedEarlier>>

\* 6. Update CSV file
Persist ==
  /\ pc = "write"
  /\ pc' = "done"
  /\ file' = DumpCSV(contactos)
  /\ csvWrites' = csvWrites + 1
  /\ UNCHANGED <<campaign_id, contactos, templates, idx, session, alive, status, lastErr,
                 listed, csvReads, file0, dropAt, okEarlier, savedEarlier>>

Next ==
  \/ \E cid \in CampaignIds : Start(cid)
  \/ Connect
  \/ \E err \in {"dns", "refused", "generic"} : ConnectFails(err)
  \/ StartTLS
  \/ StartTLSFails
  \/ Login
  \/ \E err \in {"auth", "generic"} : LoginFails(err)
  \/ RowRaises
  \/ RowSkipped
  \/ RowAlready
  \/ RowBuildFails
  \/ RowSent
  \/ RowRefused
  \/ RowDropped
  \/ RowDead
  \/ Quit
  \/ QuitFails
  \/ Persist

Spec == Init /\ [][Next]_vars

\* ---------------------------------------------------------- properties
\* the value under column k of row r of a list file, whatever its column order
Cell(f, r, k) == f.rows[r][Pos(f.header, k)]
\* the contacts as this run found them, and as the file holds them now
Loaded(r, k) == Cell(file0, r, k)
Stored(r, k) == Cell(file, r, k)
Rows == DOMAIN file0.rows
SameRow(r) == \A k \in Range(fieldnames) : Stored(r, k) = Loaded(r, k)

\* server.sendmail was called for the row in this run
Submitted(r) == status[r] \in {"sent", "failed_send"}
\* the row entered the try block that builds and sends
Tried(r) == status[r] \in {"sent", "failed_send", "failed_build"}
RowFailedIn(st, r) == st[r] \in {"failed_send", "failed_build"}

\* C1 (as stated): over any sequence of runs, a row whose send succeeded in
\* an earlier run is never submitted to the mail session in a later run.
C1_NoResendAfterSuccess ==
  \A r \in Rows : okEarlier[r] => ~Submitted(r)

\* C1 (amended): a row whose send succeeded in an earlier run that went on
\* to rewrite the contact list is never built or submitted in a later run.
C1_NoResendAfterSavedSuccess ==
  \A r \in Rows : savedEarlier[r] => ~Tried(r)

C1_Witness ==
  /\ pc = "done"
  /\ \E r \in Rows : savedEarlier[r] /\ status[r] = "already"
  /\ \E r \in Rows : status[r] = "sent"

\* C2: a row whose enviado, lower-cased and trimmed, is 'si' when loaded is
\* never built or submitted in the run, and the file holds it unchanged.
C2_SentRowsUntouched ==
  \A r \in Rows :
    Norm(Chars(Loaded(r, "enviado"))) = SI => ~Tried(r) /\ SameRow(r)

C2_Witness ==
  /\ pc = "done"
  /\ file # file0
  /\ \E r \in Rows : /\ Norm(Chars(Loaded(r, "enviado"))) = SI
                     /\ Loaded(r, "enviado") # "si"
                     /\ status[r] = "already"

\* C3: a row whose device, lower-cased and trimmed, is 'android' is skipped
\* whatever its enviado value: it is never built or submitted, a loop that
\* passes it has skipped it, and the file holds it unchanged.
C3_AndroidRowsSkipped ==
  \A r \in Rows :
    Norm(Chars(Loaded(r, "device"))) = ANDROID
      => /\ ~Tried(r)
         /\ (pc \in {"loop", "write", "done"} /\ idx > r => status[r] = "skipped")
         /\ SameRow(r)

C3_Witness ==
  /\ pc = "done"
  /\ file # file0
  /\ \E r \in Rows : /\ Norm(Chars(Loaded(r, "device"))) = ANDROID
                     /\ Loaded(r, "device") # "android"
                     /\ Norm(Chars(Loaded(r, "enviado"))) # SI
                     /\ status[r] = "skipped"
  /\ \E r \in Rows : /\ Norm(Chars(Loaded(r, "device"))) = ANDROID
                     /\ Norm(Chars(Loaded(r, "enviado"))) = SI
                     /\ status[r] = "skipped"

\* C4: once the run has rewritten the file, every row whose send succeeded
\* has enviado 'si' in the file and every other row has the enviado value
\* it was loaded with.
C4_PersistedFlags ==
  pc = "done" =>
    \A r \in Rows :
      /\ status[r] = "sent" => Stored(r, "enviado") = "si"
      /\ status[r] # "sent" => Stored(r, "enviado") = Loaded(r, "enviado")

C4_Witness ==
  /\ pc = "done"
  /\ \E r \in Rows : status[r] = "sent" /\ Loaded(r, "enviado") # "si"
  /\ \E r \in Rows : status[r] = "failed_send" /\ Loaded(r, "enviado") = ""

\* C5: when connect, starttls or login raises, the run is aborted with no
\* row built or submitted and the file left exactly as it was.
C5_ConnectionFailureIsFatal ==
  pc = "aborted" /\ session # "authenticated"
    => /\ \A r \in Rows : status[r] = "none"
       /\ file = file0
       /\ csvWrites = 0
       /\ lastErr \in {"auth", "dns", "refused", "generic"}

C5_Witness ==
  /\ pc = "aborted"
  /\ session = "encrypted"
  /\ lastErr = "auth"
  /\ file.header # fieldnames
  /\ \E r \in Rows : Norm(Chars(Loaded(r, "enviado"))) # SI

\* the connection was never lost in this run
ConnectionKept == dropAt = 0 /\ (alive \/ session = "closed")

\* C6: once a row has failed inside the per-recipient try (the message
\* could not be built, or its send was refused) and the connection holds,
\* the run still processes every later row, closes the session and rewrites
\* the file, the failed row keeping the flag it was loaded with.
C6_FailureNeverStopsTheBatch ==
  \A r \in Rows :
    RowFailedIn(status, r) /\ pc \in Final /\ ConnectionKept
      => /\ pc = "done"
         /\ session = "closed"
         /\ \A q \in Rows : q > r => status[q] \notin {"none", "raised"}
         /\ Stored(r, "enviado") = Loaded(r, "enviado")

C8_UnknownCampaignTouchesNothing ==
  pc # "idle" /\ campaign_id \notin Campaigns
    => /\ pc = "returned"
       /\ listed
       /\ csvReads = 0
       /\ csvWrites = 0
       /\ file = file0
       /\ session = "unopened"
       /\ \A r \in Rows : status[r] = "none"

C8_Witness ==
  /\ pc = "returned"
  /\ campaign_id = "unknown"
  /\ listed
  /\ file.exists
  /\ \E r \in Rows : Norm(Chars(Stored(r, "enviado"))) # SI

\* the row has no name token, or no e-mail address
Blank(c) == Inked(Chars(c["nombre"])) = {} \/ Norm(Chars(c["email"])) = <<>>

\* C9: in the send loop a row whose nombre is empty or blank, or whose
\* email is empty, is skipped and the loop continues with the next row.
C9_BlankRowsSkipped ==
  [][ /\ pc = "loop"
      /\ idx \in DOMAIN contactos
      /\ Blank(contactos[idx])
      /\ status' # status
        => /\ status'[idx] = "skipped"
           /\ pc' = "loop"
           /\ idx' = idx + 1
           /\ lastErr' = lastErr ]_vars

\* the session's steps within a run
SessionSteps ==
  { <<"unopened", "connected">>, <<"connected", "encrypted">>,
    <<"encrypted", "authenticated">>, <<"authenticated", "closed">> }

\* C10: the session moves only Unopened -> Connected -> (encrypted) ->
\* Authenticated -> Closed, a new run starting from Unopened again; rows are
\* submitted only while it is authenticated, it is closed only once every
\* row has been processed or skipped, nothing is submitted after the close,
\* and the file is rewritten at most once per run and only after the close.
C10_SessionLifecycle ==
  [][ /\ session' # session
        => \/ <<session, session'>> \in SessionSteps
           \/ session' = "unopened" /\ pc \in Final /\ pc' \in {"returned", "connect"}
      /\ \A r \in DOMAIN status :
           ~Submitted(r) /\ status'[r] \in {"sent", "failed_send"}
             => session = "authenticated" /\ session' = "authenticated"
      /\ session # "closed" /\ session' = "closed"
           => \A r \in DOMAIN contactos : status[r] # "none"
      /\ session = "closed" /\ session' = "closed" => status' = status
      /\ file' # file \/ csvWrites' > csvWrites
           => /\ session = "closed"
              /\ csvWrites = 0
              /\ csvWrites' = 1 ]_vars

C10_Witness ==
  /\ pc = "done"
  /\ session = "closed"
  /\ csvWrites = 1
  /\ file # file0
  /\ \E r \in Rows : status[r] = "sent"
  /\ \E r \in Rows : status[r] = "skipped"

====
